---- MODULE Spec2Model ----
(***************************************************************************)
(* Model of src/src/transport/tcp.py: TCPConnection (handshake, send_data, *)
(* receive_ack, handle_timeout, close_connection) for two connections, a   *)
(* client "A" and a server "B", as set up in tests/test_transport.py.      *)
(*                                                                         *)
(* Python integers are unbounded; sequence numbers are kept exactly as two *)
(* 16-bit limbs [hi, lo] (value hi * 65536 + lo).  Python floats (srtt,    *)
(* rttvar, rto, timestamps) are kept exactly as dyadic rationals [n, e]    *)
(* (value n / 2^e); every float the model reaches has a numerator far      *)
(* below 2^53, so the float arithmetic of the code is exact on them.       *)
(*                                                                         *)
(* Further parts: TCPSegment.serialize / deserialize (SpecCodec), two      *)
(* threads calling receive_ack and handle_timeout on one connection        *)
(* (SpecRace), UDPSocket of src/src/transport/udp.py (SpecUDP) and         *)
(* LinkStateRouter / DijkstraRouter of src/src/network/routing.py          *)
(* (SpecRouting), and CSMACD.transmit of src/src/datalink/mac.py           *)
(* (SpecMac).                                                              *)
(***************************************************************************)
EXTENDS Integers, Sequences, FiniteSets, TLC

\* ---------------------------------------------------------------- bounds
MaxTime == 2        \* the clock (time.time(), in seconds) runs 0..MaxTime
MaxSegs == 3        \* data segments emitted in a behaviour of Spec
MaxLossSegs == 6    \* data segments emitted in a behaviour of SpecLoss
MaxPayload == 2     \* payload bytes of a segment handed to the codec

\* ------------------------------------------------------ program constants
MSS == 1460
InitialWindow == 65536      \* send_window, recv_window and ssthresh
SYN == 2
ACK == 16
SYNACK == 18
PSHACK == 24
FINACK == 17

Conns == {"A", "B"}
Peer(c) == IF c = "A" THEN "B" ELSE "A"
src_port(c) == IF c = "A" THEN 12345 ELSE 80
dest_port(c) == IF c = "A" THEN 80 ELSE 12345
recv_window(c) == InitialWindow

\* ------------------------------------------- unbounded Python integers
Limb == 256 * 256
Num(h, l) == [hi |-> h, lo |-> l]
NumOf(k) == Num(k \div Limb, k % Limb)
NumAdd(a, k) == Num(a.hi + ((a.lo + k) \div Limb), (a.lo + k) % Limb)
NumLess(a, b) == a.hi < b.hi \/ (a.hi = b.hi /\ a.lo < b.lo)
NumLeq(a, b) == a = b \/ NumLess(a, b)

\* ------------------------------------------------- exact Python floats
RECURSIVE Pow2(_)
Pow2(e) == IF e = 0 THEN 1 ELSE 2 * Pow2(e - 1)
RECURSIVE Dy(_, _)
Dy(n, e) == IF e > 0 /\ n % 2 = 0 THEN Dy(n \div 2, e - 1) ELSE [n |-> n, e |-> e]
DyMax(a, b) == IF a.e > b.e THEN a.e ELSE b.e
DyAt(a, e) == a.n * Pow2(e - a.e)
DyAdd(a, b) == Dy(DyAt(a, DyMax(a, b)) + DyAt(b, DyMax(a, b)), DyMax(a, b))
DyAbsDiff(a, b) ==
    LET x == DyAt(a, DyMax(a, b))
        y == DyAt(b, DyMax(a, b))
    IN  Dy(IF x >= y THEN x - y ELSE y - x, DyMax(a, b))
DyMul(k, j, a) == Dy(k * a.n, a.e + j)          \* (k / 2^j) * a
DyLess(a, b) == DyAt(a, DyMax(a, b)) < DyAt(b, DyMax(a, b))
\* a time.time() reading of t whole seconds; the clock never runs backwards,
\* so a difference now - send_time is DyAbsDiff of the two readings
Secs(t) == Dy(t, 0)

\* -------------------------------------------------------------- segments
NoPayload == [total |-> 0, from |-> 0, len |-> 0]
\* data[from : from + n] of a bytes object of length total
Slice(total, from, n) ==
    LET m == IF from >= total THEN 0
             ELSE IF from + n > total THEN total - from ELSE n
    IN  IF m = 0 THEN NoPayload ELSE [total |-> total, from |-> from, len |-> m]
PayloadLen(p) == p.len

TCPSegment(sp, dp, sq, ak, fl, ws, pl) ==
    [src_port |-> sp, dest_port |-> dp, seq_num |-> sq, ack_num |-> ak,
     flags |-> fl, window_size |-> ws, checksum |-> 0, urgent_ptr |-> 0,
     payload |-> pl]

VARIABLES state, seq_num, ack_num, expected_seq, send_window,
          congestion_window, ssthresh, unacked_segments, srtt, rttvar, rto,
          now, isn, sent, lost, last, codec,
          buffer, udp, lsr, lsas, route, thr, mac

\* isn: the initial sequence number of each connection; sent: the data
\* segments it has emitted; lost: whether a handle_timeout call on it has
\* retransmitted; last: the last call; codec: the segment codec's run
conn == <<state, seq_num, ack_num, expected_seq, send_window,
          congestion_window, ssthresh, unacked_segments, srtt, rttvar, rto>>
\* the state of the other components: a UDPSocket's buffer and its last call,
\* the LinkStateRouters, the LSAs they have generated and their last call,
\* the threads running calls on one connection, and a CSMACD station
net == <<buffer, udp, lsr, lsas, route, thr, mac>>
vars == <<state, seq_num, ack_num, expected_seq, send_window,
          congestion_window, ssthresh, unacked_segments, srtt, rttvar, rto,
          now, isn, sent, lost, last, codec, buffer, udp, lsr, lsas, route, thr,
          mac>>

\* every field of connection c
Fields(c) ==
    [state |-> state[c], seq_num |-> seq_num[c], ack_num |-> ack_num[c],
     expected_seq |-> expected_seq[c], send_window |-> send_window[c],
     congestion_window |-> congestion_window[c], ssthresh |-> ssthresh[c],
     unacked_segments |-> unacked_segments[c],
     srtt |-> srtt[c], rttvar |-> rttvar[c], rto |-> rto[c]]

\* the record of the last call: connection, operation, argument, whether it
\* raised, what it returned, the clock and the connection's fields on entry
Call(c, op, arg, err, ret) ==
    [c |-> c, op |-> op, arg |-> arg, err |-> err, ret |-> ret,
     at |-> now, pre |-> Fields(c)]
NoArg == "none"
NoCall == [c |-> "none", op |-> "init", arg |-> NoArg, err |-> FALSE,
           ret |-> <<>>, at |-> 0, pre |-> NoArg]

\* no segment has been handed to the codec
NoCodec == [pc |-> "idle"]

\* UDPSocket(port=8080) of tests/test_transport.py; no call made on it yet
port == 8080
max_buffer_size == 100
NoSocketCall == [op |-> "init", arg |-> NoArg, ret |-> NoArg, pre |-> <<>>]

\* LinkStateRouter(node_id): the fields __init__ sets; dictionaries are
\* sequences of <<key, value>> pairs in insertion order
Routers == {"A", "B"}
LinkStateRouter(node_id) ==
    [node_id |-> node_id, sequence_number |-> 0, link_state_db |-> <<>>,
     neighbors |-> <<>>]
NoRouterCall ==
    [r |-> "none", op |-> "init", arg |-> NoArg, ret |-> "None", err |-> "None"]

\* the two threads that call into connection "A": each is outside a call
Threads == {"ack", "timer"}
NoThreads == [t \in Threads |-> [pc |-> "idle"]]

\* CSMACD("Station-A", collision_detect) of examples/network_simulation.py:
\* the fields __init__ sets, and no transmit call made yet. stats.backoff_time
\* is kept as the number of slots drawn, the field being that number of
\* slot_time
max_retries == 16
MACStats ==
    [transmissions |-> 0, collisions |-> 0, successful_transmissions |-> 0,
     backoff_slots |-> 0]
CSMACD == [pc |-> "idle", state |-> "IDLE", stats |-> MACStats]

\* the initial sequence numbers random.randint(0, 2**32 - 1) returns: one
\* 1000 below 2**32 - 1 for the client, a small one for the server
InitialSeq(c) == IF c = "A" THEN Num(65535, 65535 - 1000) ELSE Num(0, 1000)

Init ==
    /\ state = [c \in Conns |-> "CLOSED"]
    /\ isn = [c \in Conns |-> InitialSeq(c)]
    /\ seq_num = isn
    /\ ack_num = [c \in Conns |-> NumOf(0)]
    /\ expected_seq = [c \in Conns |-> NumOf(0)]
    /\ send_window = [c \in Conns |-> InitialWindow]
    /\ congestion_window = [c \in Conns |-> MSS]
    /\ ssthresh = [c \in Conns |-> InitialWindow]
    /\ unacked_segments = [c \in Conns |-> <<>>]
    /\ srtt = [c \in Conns |-> Dy(1, 1)]
    /\ rttvar = [c \in Conns |-> Dy(1, 2)]
    /\ rto = [c \in Conns |-> Dy(1, 0)]
    /\ now = 0
    /\ sent = [c \in Conns |-> 0]
    /\ lost = [c \in Conns |-> FALSE]
    /\ codec = NoCodec
    /\ last = NoCall
    /\ buffer = <<>>
    /\ udp = NoSocketCall
    /\ lsr = [r \in Routers |-> LinkStateRouter(r)]
    /\ lsas = {}
    /\ route = NoRouterCall
    /\ thr = NoThreads
    /\ mac = CSMACD

\* mutant: a failed call resets the connection to CLOSED
Raise_reset(c, op, arg) ==
    /\ last' = Call(c, op, arg, TRUE, <<>>)
    /\ state' = [state EXCEPT ![c] = "CLOSED"]
    /\ UNCHANGED <<seq_num, ack_num, expected_seq, send_window,
                   congestion_window, ssthresh, unacked_segments,
                   srtt, rttvar, rto, now, isn, sent, lost, codec, net>>

\* the exception an operation raises in the wrong state: only `last` changes
Raise(c, op, arg) ==
    /\ last' = Call(c, op, arg, TRUE, <<>>)
    /\ UNCHANGED <<conn, now, isn, sent, lost, codec, net>>

\* segments a connection can be handed: the ones its peer has just returned,
\* and a second delivery of the one it has just been handed
Incoming(c) ==
    (IF last.c = Peer(c) THEN {last.ret[i] : i \in 1..Len(last.ret)} ELSE {})
    \cup (IF last.c = c /\ last.op \in {"accept_connection", "complete_handshake"}
          THEN {last.arg} ELSE {})

\* tests/test_transport.py: server.state = TCPState.LISTEN on a new connection
Listen(c) ==
    /\ c = "B"
    /\ state[c] = "CLOSED"
    /\ state' = [state EXCEPT ![c] = "LISTEN"]
    /\ last' = Call(c, "listen", NoArg, FALSE, <<>>)
    /\ UNCHANGED <<seq_num, ack_num, expected_seq, send_window,
                   congestion_window, ssthresh, unacked_segments,
                   srtt, rttvar, rto, now, isn, sent, lost, codec, net>>

\* mutant: connect's segment also carries ACK
connect_synack(c) ==
    IF state[c] # "CLOSED" THEN Raise(c, "connect", NoArg)
    ELSE
    /\ state' = [state EXCEPT ![c] = "SYN_SENT"]
    /\ last' = Call(c, "connect", NoArg, FALSE,
            <<TCPSegment(src_port(c), dest_port(c), seq_num[c], NumOf(0),
                         SYNACK, recv_window(c), NoPayload)>>)
    /\ UNCHANGED <<seq_num, ack_num, expected_seq, send_window,
                   congestion_window, ssthresh, unacked_segments,
                   srtt, rttvar, rto, now, isn, sent, lost, codec, net>>

connect(c) ==
    IF state[c] # "CLOSED" THEN Raise(c, "connect", NoArg)
    ELSE
    /\ state' = [state EXCEPT ![c] = "SYN_SENT"]
    /\ last' = Call(c, "connect", NoArg, FALSE,
            <<TCPSegment(src_port(c), dest_port(c), seq_num[c], NumOf(0),
                         SYN, recv_window(c), NoPayload)>>)
    /\ UNCHANGED <<seq_num, ack_num, expected_seq, send_window,
                   congestion_window, ssthresh, unacked_segments,
                   srtt, rttvar, rto, now, isn, sent, lost, codec, net>>

\* mutant: accept_connection acknowledges syn_segment.seq_num itself
accept_connection_noinc(c, syn_segment) ==
    IF state[c] # "LISTEN" THEN Raise(c, "accept_connection", syn_segment)
    ELSE
    /\ state' = [state EXCEPT ![c] = "SYN_RECEIVED"]
    /\ expected_seq' = [expected_seq EXCEPT ![c] = syn_segment.seq_num]
    /\ last' = Call(c, "accept_connection", syn_segment, FALSE,
            <<TCPSegment(src_port(c), syn_segment.src_port, seq_num[c],
                         syn_segment.seq_num,
                         SYNACK, recv_window(c), NoPayload)>>)
    /\ UNCHANGED <<seq_num, ack_num, send_window,
                   congestion_window, ssthresh, unacked_segments,
                   srtt, rttvar, rto, now, isn, sent, lost, codec, net>>

accept_connection(c, syn_segment) ==
    IF state[c] # "LISTEN" THEN Raise(c, "accept_connection", syn_segment)
    ELSE
    /\ state' = [state EXCEPT ![c] = "SYN_RECEIVED"]
    /\ expected_seq' = [expected_seq EXCEPT ![c] = NumAdd(syn_segment.seq_num, 1)]
    /\ last' = Call(c, "accept_connection", syn_segment, FALSE,
            <<TCPSegment(src_port(c), syn_segment.src_port, seq_num[c],
                         NumAdd(syn_segment.seq_num, 1),
                         SYNACK, recv_window(c), NoPayload)>>)
    /\ UNCHANGED <<seq_num, ack_num, send_window,
                   congestion_window, ssthresh, unacked_segments,
                   srtt, rttvar, rto, now, isn, sent, lost, codec, net>>

\* mutant: complete_handshake does not record ack_num
complete_handshake_norecord(c, syn_ack) ==
    IF state[c] # "SYN_SENT" THEN Raise(c, "complete_handshake", syn_ack)
    ELSE
    /\ state' = [state EXCEPT ![c] = "ESTABLISHED"]
    /\ last' = Call(c, "complete_handshake", syn_ack, FALSE,
            <<TCPSegment(src_port(c), dest_port(c), NumAdd(seq_num[c], 1),
                         ack_num[c],
                         ACK, recv_window(c), NoPayload)>>)
    /\ UNCHANGED <<seq_num, ack_num, expected_seq, send_window,
                   congestion_window, ssthresh, unacked_segments,
                   srtt, rttvar, rto, now, isn, sent, lost, codec, net>>

complete_handshake(c, syn_ack) ==
    IF state[c] # "SYN_SENT" THEN Raise(c, "complete_handshake", syn_ack)
    ELSE
    /\ state' = [state EXCEPT ![c] = "ESTABLISHED"]
    /\ ack_num' = [ack_num EXCEPT ![c] = NumAdd(syn_ack.seq_num, 1)]
    /\ last' = Call(c, "complete_handshake", syn_ack, FALSE,
            <<TCPSegment(src_port(c), dest_port(c), NumAdd(seq_num[c], 1),
                         NumAdd(syn_ack.seq_num, 1),
                         ACK, recv_window(c), NoPayload)>>)
    /\ UNCHANGED <<seq_num, expected_seq, send_window,
                   congestion_window, ssthresh, unacked_segments,
                   srtt, rttvar, rto, now, isn, sent, lost, codec, net>>

\* mutant: the FIN carries the initial sequence number
close_connection_isn(c) ==
    IF state[c] # "ESTABLISHED" THEN Raise(c, "close_connection", NoArg)
    ELSE
    /\ state' = [state EXCEPT ![c] = "FIN_WAIT_1"]
    /\ last' = Call(c, "close_connection", NoArg, FALSE,
            <<TCPSegment(src_port(c), dest_port(c), isn[c], ack_num[c],
                         FINACK, recv_window(c), NoPayload)>>)
    /\ UNCHANGED <<seq_num, ack_num, expected_seq, send_window,
                   congestion_window, ssthresh, unacked_segments,
                   srtt, rttvar, rto, now, isn, sent, lost, codec, net>>

\* mutant: close_connection lacks its state check
close_connection_unguarded(c) ==
    /\ state' = [state EXCEPT ![c] = "FIN_WAIT_1"]
    /\ last' = Call(c, "close_connection", NoArg, FALSE,
            <<TCPSegment(src_port(c), dest_port(c), seq_num[c], ack_num[c],
                         FINACK, recv_window(c), NoPayload)>>)
    /\ UNCHANGED <<seq_num, ack_num, expected_seq, send_window,
                   congestion_window, ssthresh, unacked_segments,
                   srtt, rttvar, rto, now, isn, sent, lost, codec, net>>

close_connection(c) ==
    IF state[c] # "ESTABLISHED" THEN Raise(c, "close_connection", NoArg)
    ELSE
    /\ state' = [state EXCEPT ![c] = "FIN_WAIT_1"]
    /\ last' = Call(c, "close_connection", NoArg, FALSE,
            <<TCPSegment(src_port(c), dest_port(c), seq_num[c], ack_num[c],
                         FINACK, recv_window(c), NoPayload)>>)
    /\ UNCHANGED <<seq_num, ack_num, expected_seq, send_window,
                   congestion_window, ssthresh, unacked_segments,
                   srtt, rttvar, rto, now, isn, sent, lost, codec, net>>

\* ------------------------------------------------- the unacked dictionary
\* a Python dict in insertion order: a sequence of [seq, segment, send_time]
Keys(un) == {un[i].seq : i \in 1..Len(un)}
Entry(k, seg, t) == [seq |-> k, segment |-> seg, send_time |-> t]
\* mutant: the assignment always adds an entry
DictSet_append(un, k, seg, t) == Append(un, Entry(k, seg, t))

\* un[k] = (seg, t): an existing key keeps its place, a new one goes last
DictSet(un, k, seg, t) ==
    IF k \in Keys(un)
    THEN [i \in 1..Len(un) |-> IF un[i].seq = k THEN Entry(k, seg, t) ELSE un[i]]
    ELSE Append(un, Entry(k, seg, t))
\* un.pop(k)
DictPop(un, k) == SelectSeq(un, LAMBDA e : e.seq # k)

\* mutant: the loop advances the sequence number by mss
RECURSIVE send_loop_mss(_, _, _, _)
send_loop_mss(c, len, offset, st) ==
    IF offset >= len THEN st
    ELSE IF Len(st.un) * MSS >= congestion_window[c] THEN st
    ELSE LET segment == TCPSegment(src_port(c), dest_port(c), st.seq, ack_num[c],
                                   PSHACK, recv_window(c), Slice(len, offset, MSS))
         IN  send_loop_mss(c, len, offset + MSS,
                 [un |-> DictSet(st.un, st.seq, segment, Secs(now)),
                  seq |-> NumAdd(st.seq, MSS),
                  segments |-> Append(st.segments, segment)])

\* mutant: the loop stops only when len(unacked) * mss > congestion_window
RECURSIVE send_loop_gt(_, _, _, _)
send_loop_gt(c, len, offset, st) ==
    IF offset >= len THEN st
    ELSE IF Len(st.un) * MSS > congestion_window[c] THEN st
    ELSE LET segment == TCPSegment(src_port(c), dest_port(c), st.seq, ack_num[c],
                                   PSHACK, recv_window(c), Slice(len, offset, MSS))
         IN  send_loop_gt(c, len, offset + MSS,
                 [un |-> DictSet(st.un, st.seq, segment, Secs(now)),
                  seq |-> NumAdd(st.seq, PayloadLen(segment.payload)),
                  segments |-> Append(st.segments, segment)])

\* mutant: the loop advances the sequence number by one less than the chunk
RECURSIVE send_loop_overlap(_, _, _, _)
send_loop_overlap(c, len, offset, st) ==
    IF offset >= len THEN st
    ELSE IF Len(st.un) * MSS >= congestion_window[c] THEN st
    ELSE LET segment == TCPSegment(src_port(c), dest_port(c), st.seq, ack_num[c],
                                   PSHACK, recv_window(c), Slice(len, offset, MSS))
         IN  send_loop_overlap(c, len, offset + MSS,
                 [un |-> DictSet(st.un, st.seq, segment, Secs(now)),
                  seq |-> NumAdd(st.seq, PayloadLen(segment.payload) - 1),
                  segments |-> Append(st.segments, segment)])

\* the while loop of send_data, from `offset`, on the loop's state
\* st = [un, seq, segments]
RECURSIVE send_loop(_, _, _, _)
send_loop(c, len, offset, st) ==
    IF offset >= len THEN st
    ELSE IF Len(st.un) * MSS >= congestion_window[c] THEN st
    ELSE LET segment == TCPSegment(src_port(c), dest_port(c), st.seq, ack_num[c],
                                   PSHACK, recv_window(c), Slice(len, offset, MSS))
         IN  send_loop(c, len, offset + MSS,
                 [un |-> DictSet(st.un, st.seq, segment, Secs(now)),
                  seq |-> NumAdd(st.seq, PayloadLen(segment.payload)),
                  segments |-> Append(st.segments, segment)])

send_data(c, len) ==
    IF state[c] # "ESTABLISHED" THEN Raise(c, "send_data", len)
    ELSE
    LET r == send_loop(c, len, 0,
                 [un |-> unacked_segments[c], seq |-> seq_num[c], segments |-> <<>>])
    IN  /\ unacked_segments' = [unacked_segments EXCEPT ![c] = r.un]
        /\ seq_num' = [seq_num EXCEPT ![c] = r.seq]
        /\ sent' = [sent EXCEPT ![c] = @ + Len(r.segments)]
        /\ last' = Call(c, "send_data", len, FALSE, r.segments)
        /\ UNCHANGED <<state, ack_num, expected_seq, send_window,
                       congestion_window, ssthresh, srtt, rttvar, rto, now, isn, lost, codec, net>>

\* mutant: slow start also when congestion_window = ssthresh
Grow_leq(cwnd, thresh) ==
    IF cwnd <= thresh THEN cwnd + MSS ELSE cwnd + ((MSS * MSS) \div cwnd)

\* the window increase of receive_ack, lines 192-195
Grow(cwnd, thresh) ==
    IF cwnd < thresh THEN cwnd + MSS ELSE cwnd + ((MSS * MSS) \div cwnd)

\* the body of receive_ack's loop for a retired entry e, on the loop's state
\* st = [un, srtt, rttvar, rto, cwnd]
Retire(c, e, st) ==
    LET sample_rtt == DyAbsDiff(Secs(now), e.send_time)
        nrttvar == DyAdd(DyMul(3, 2, st.rttvar), DyMul(1, 2, DyAbsDiff(st.srtt, sample_rtt)))
        nsrtt == DyAdd(DyMul(7, 3, st.srtt), DyMul(1, 3, sample_rtt))
    IN  [un |-> DictPop(st.un, e.seq),
         srtt |-> nsrtt, rttvar |-> nrttvar,
         rto |-> DyAdd(nsrtt, DyMul(4, 0, nrttvar)),
         cwnd |-> Grow(st.cwnd, ssthresh[c])]

\* mutant: the loop retires with seq_num <= acked_seq
RECURSIVE ack_loop_inclusive(_, _, _, _, _)
ack_loop_inclusive(c, keys, i, acked_seq, st) ==
    IF i > Len(keys) THEN st
    ELSE ack_loop_inclusive(c, keys, i + 1, acked_seq,
             IF NumLeq(keys[i].seq, acked_seq) THEN Retire(c, keys[i], st) ELSE st)

\* the for loop of receive_ack over list(keys), from position i of that list
RECURSIVE ack_loop(_, _, _, _, _)
ack_loop(c, keys, i, acked_seq, st) ==
    IF i > Len(keys) THEN st
    ELSE ack_loop(c, keys, i + 1, acked_seq,
             IF NumLess(keys[i].seq, acked_seq) THEN Retire(c, keys[i], st) ELSE st)

\* mutant: send_window is one attribute shared by every connection
receive_ack_shared(c, ack_segment) ==
    LET r == ack_loop(c, unacked_segments[c], 1, ack_segment.ack_num,
                 [un |-> unacked_segments[c], srtt |-> srtt[c],
                  rttvar |-> rttvar[c], rto |-> rto[c],
                  cwnd |-> congestion_window[c]])
    IN  /\ unacked_segments' = [unacked_segments EXCEPT ![c] = r.un]
        /\ srtt' = [srtt EXCEPT ![c] = r.srtt]
        /\ rttvar' = [rttvar EXCEPT ![c] = r.rttvar]
        /\ rto' = [rto EXCEPT ![c] = r.rto]
        /\ congestion_window' = [congestion_window EXCEPT ![c] = r.cwnd]
        /\ send_window' = [c2 \in Conns |-> ack_segment.window_size]
        /\ last' = Call(c, "receive_ack", ack_segment, FALSE, <<>>)
        /\ UNCHANGED <<state, seq_num, ack_num, expected_seq, ssthresh, now, isn, sent, lost, codec, net>>

receive_ack(c, ack_segment) ==
    LET r == ack_loop(c, unacked_segments[c], 1, ack_segment.ack_num,
                 [un |-> unacked_segments[c], srtt |-> srtt[c],
                  rttvar |-> rttvar[c], rto |-> rto[c],
                  cwnd |-> congestion_window[c]])
    IN  /\ unacked_segments' = [unacked_segments EXCEPT ![c] = r.un]
        /\ srtt' = [srtt EXCEPT ![c] = r.srtt]
        /\ rttvar' = [rttvar EXCEPT ![c] = r.rttvar]
        /\ rto' = [rto EXCEPT ![c] = r.rto]
        /\ congestion_window' = [congestion_window EXCEPT ![c] = r.cwnd]
        /\ send_window' = [send_window EXCEPT ![c] = ack_segment.window_size]
        /\ last' = Call(c, "receive_ack", ack_segment, FALSE, <<>>)
        /\ UNCHANGED <<state, seq_num, ack_num, expected_seq, ssthresh, now, isn, sent, lost, codec, net>>

\* mutant: the test is current_time - send_time >= rto
Expired_nonstrict(c, e, current_time) ==
    ~DyLess(DyAbsDiff(current_time, e.send_time), rto[c])

\* the test of handle_timeout, line 204
Expired(c, e, current_time) == DyLess(rto[c], DyAbsDiff(current_time, e.send_time))

\* mutant: ssthresh = congestion_window // 2, without the 2 * 1460 floor
RECURSIVE timeout_loop_nofloor(_, _, _, _)
timeout_loop_nofloor(c, i, current_time, st) ==
    IF i > Len(st.un) THEN st
    ELSE timeout_loop_nofloor(c, i + 1, current_time,
             IF Expired(c, st.un[i], current_time)
             THEN [un |-> DictSet(st.un, st.un[i].seq, st.un[i].segment, current_time),
                   thresh |-> st.cwnd \div 2,
                   cwnd |-> MSS,
                   retransmitted |-> Append(st.retransmitted, st.un[i].segment)]
             ELSE st)

\* mutant: congestion_window is halved, not reset to 1460
RECURSIVE timeout_loop_halve(_, _, _, _)
timeout_loop_halve(c, i, current_time, st) ==
    IF i > Len(st.un) THEN st
    ELSE timeout_loop_halve(c, i + 1, current_time,
             IF Expired(c, st.un[i], current_time)
             THEN [un |-> DictSet(st.un, st.un[i].seq, st.un[i].segment, current_time),
                   thresh |-> IF st.cwnd \div 2 > 2 * MSS THEN st.cwnd \div 2 ELSE 2 * MSS,
                   cwnd |-> st.cwnd \div 2,
                   retransmitted |-> Append(st.retransmitted, st.un[i].segment)]
             ELSE st)

\* the for loop of handle_timeout over the dictionary's items, from position i,
\* on the loop's state st = [un, thresh, cwnd, retransmitted]
RECURSIVE timeout_loop(_, _, _, _)
timeout_loop(c, i, current_time, st) ==
    IF i > Len(st.un) THEN st
    ELSE timeout_loop(c, i + 1, current_time,
             IF Expired(c, st.un[i], current_time)
             THEN [un |-> DictSet(st.un, st.un[i].seq, st.un[i].segment, current_time),
                   thresh |-> IF st.cwnd \div 2 > 2 * MSS THEN st.cwnd \div 2 ELSE 2 * MSS,
                   cwnd |-> MSS,
                   retransmitted |-> Append(st.retransmitted, st.un[i].segment)]
             ELSE st)

handle_timeout(c) ==
    LET r == timeout_loop(c, 1, Secs(now),
                 [un |-> unacked_segments[c], thresh |-> ssthresh[c],
                  cwnd |-> congestion_window[c], retransmitted |-> <<>>])
    IN  /\ unacked_segments' = [unacked_segments EXCEPT ![c] = r.un]
        /\ ssthresh' = [ssthresh EXCEPT ![c] = r.thresh]
        /\ congestion_window' = [congestion_window EXCEPT ![c] = r.cwnd]
        /\ last' = Call(c, "handle_timeout", NoArg, FALSE, r.retransmitted)
        /\ lost' = [lost EXCEPT ![c] = @ \/ r.retransmitted # <<>>]
        /\ UNCHANGED <<state, seq_num, ack_num, expected_seq, send_window,
                       srtt, rttvar, rto, now, isn, sent, codec, net>>

\* lengths of the byte strings handed to send_data
DataLens == {0, 21, 3000}

\* the acknowledgment segments a peer can send to c (test_tcp_congestion_control
\* builds one the same way): an ack number below everything, just past the start
\* or at the end of an outstanding segment, or past everything sent, with either
\* advertised window
InsideAcks(c) ==
    {NumAdd(unacked_segments[c][i].seq, 1) : i \in 1..Len(unacked_segments[c])}
EndAcks(c) ==
    {NumAdd(unacked_segments[c][i].seq, PayloadLen(unacked_segments[c][i].segment.payload)) :
        i \in 1..Len(unacked_segments[c])}
AckNums(c) ==
    {NumOf(0), NumAdd(seq_num[c], 100)} \cup InsideAcks(c) \cup EndAcks(c)
AckWindows == {65535, 1000}
AckSegments(c) ==
    {TCPSegment(dest_port(c), src_port(c), NumOf(0), a, ACK, w, NoPayload) :
        a \in AckNums(c), w \in AckWindows}

\* the wall clock read by time.time() advances between calls
Tick(max) ==
    /\ now < max
    /\ now' = now + 1
    /\ UNCHANGED <<conn, isn, sent, lost, last, codec, net>>

\* the segments send_data(c, len) would emit now
Emits(c, len) ==
    Len(send_loop(c, len, 0, [un |-> unacked_segments[c], seq |-> seq_num[c],
                              segments |-> <<>>]).segments)
\* a behaviour hands data to a connection only while the connections have
\* together emitted at most max data segments
CanSend(c, len, max) == sent["A"] + sent["B"] + Emits(c, len) <= max

\* segments are delivered as the protocol's table has them: a SYN to
\* accept_connection, a SYN+ACK to complete_handshake
Syns(c) == {s \in Incoming(c) : s.flags = SYN}
SynAcks(c) == {s \in Incoming(c) : s.flags = SYNACK}
\* a connection that has completed its handshake
Synchronized(c) == state[c] \in {"ESTABLISHED", "FIN_WAIT_1"}

\* Spec: the five state-guarded operations are called in any state;
\* acknowledgments and timer checks reach a connection once it is established
Next ==
    \/ Tick(MaxTime)
    \/ \E c \in Conns : Listen(c)
    \/ \E c \in Conns : connect(c)
    \/ \E c \in Conns : \E s \in Syns(c) : accept_connection(c, s)
    \/ \E c \in Conns : \E s \in SynAcks(c) : complete_handshake(c, s)
    \/ \E c \in Conns : close_connection(c)
    \/ \E c \in Conns : \E len \in DataLens :
          CanSend(c, len, MaxSegs) /\ send_data(c, len)
    \/ \E c \in Conns : \E s \in AckSegments(c) : Synchronized(c) /\ receive_ack(c, s)
    \/ \E c \in Conns : Synchronized(c) /\ handle_timeout(c)

Spec == Init /\ [][Next]_vars

\* SpecFair: Spec with a caller that keeps calling while there is a call
\* that changes something
SpecFair == Spec /\ WF_vars(Next)

\* SpecLoss: one bulk transfer by a caller that respects the state machine,
\* long enough for the window to grow and for losses to be detected
LossLens == {3000}
LossAcks(c) ==
    {TCPSegment(dest_port(c), src_port(c), NumOf(0), a, ACK, 65535, NoPayload) :
        a \in InsideAcks(c) \cup EndAcks(c)}

NextLoss ==
    \/ Tick(MaxTime)
    \/ \E c \in Conns : Listen(c)
    \/ \E c \in Conns : state[c] = "CLOSED" /\ connect(c)
    \/ \E c \in Conns : \E s \in Syns(c) : state[c] = "LISTEN" /\ accept_connection(c, s)
    \/ \E c \in Conns : \E s \in SynAcks(c) : state[c] = "SYN_SENT" /\ complete_handshake(c, s)
    \/ \E c \in Conns : \E len \in LossLens :
          state[c] = "ESTABLISHED" /\ CanSend(c, len, MaxLossSegs) /\ send_data(c, len)
    \/ \E c \in Conns : \E s \in LossAcks(c) : receive_ack(c, s)
    \/ \E c \in Conns : unacked_segments[c] # <<>> /\ handle_timeout(c)

SpecLoss == Init /\ [][NextLoss]_vars

\* ------------------------------------------------------ the segment codec
\* In SpecCodec a segment's payload is the byte string itself, a sequence of
\* numbers 0..255, and a wire image is such a sequence too.
\* struct.pack of an H field: two bytes, big-endian
U16(v) == <<v \div 256, v % 256>>
\* struct.pack of an L field
U32(n) == U16(n.hi) \o U16(n.lo)
\* the ranges struct.pack accepts for H, L and B fields
FitsH(v) == v >= 0 /\ v <= 65535
FitsL(n) == n.hi >= 0 /\ n.hi <= 65535
FitsB(v) == v >= 0 /\ v <= 255
StructError == "struct.error"
\* a raised ValueError, told from a returned segment by its one field
ValueError == [error |-> "ValueError"]

\* TCPSegment.serialize: the header of '!HHLLBBHHH' followed by the payload,
\* or the struct.error that pack raises for a field out of range
serialize(seg) ==
    IF /\ FitsH(seg.src_port) /\ FitsH(seg.dest_port)
       /\ FitsL(seg.seq_num) /\ FitsL(seg.ack_num)
       /\ FitsB(seg.flags) /\ FitsH(seg.window_size)
       /\ FitsH(seg.checksum) /\ FitsH(seg.urgent_ptr)
    THEN U16(seg.src_port) \o U16(seg.dest_port)
           \o U32(seg.seq_num) \o U32(seg.ack_num)
           \o <<5 * 16, seg.flags>>
           \o U16(seg.window_size) \o U16(seg.checksum) \o U16(seg.urgent_ptr)
           \o seg.payload
    ELSE StructError

\* mutant: an H field is read little-endian
GetH_le(data, i) == data[i] + 256 * data[i + 1]

\* struct.unpack of an H field at position i (from 1) and of an L field
GetH(data, i) == 256 * data[i] + data[i + 1]
GetL(data, i) == Num(GetH(data, i), GetH(data, i + 2))

\* mutant: an input of exactly 20 bytes is refused too
deserialize_short(data) ==
    IF Len(data) <= 20 THEN ValueError
    ELSE LET data_offset == (data[13] \div 16) * 4
         IN  [src_port |-> GetH(data, 1), dest_port |-> GetH(data, 3),
              seq_num |-> GetL(data, 5), ack_num |-> GetL(data, 9),
              flags |-> data[14], window_size |-> GetH(data, 15),
              checksum |-> GetH(data, 17), urgent_ptr |-> GetH(data, 19),
              payload |-> SubSeq(data, data_offset + 1, Len(data))]

\* TCPSegment.deserialize
deserialize(data) ==
    IF Len(data) < 20 THEN ValueError
    ELSE LET data_offset == (data[13] \div 16) * 4
         IN  [src_port |-> GetH(data, 1), dest_port |-> GetH(data, 3),
              seq_num |-> GetL(data, 5), ack_num |-> GetL(data, 9),
              flags |-> data[14], window_size |-> GetH(data, 15),
              checksum |-> GetH(data, 17), urgent_ptr |-> GetH(data, 19),
              payload |-> SubSeq(data, data_offset + 1, Len(data))]

\* the segments handed to the codec: extreme and mixed-byte field values, a
\* sequence number, checksum and urgent pointer past their field's range,
\* payloads of up to MaxPayload bytes
CodecBytes == {0, 65, 255}
CodecPayloads ==
    UNION {[1..n -> CodecBytes] : n \in 0..MaxPayload}
CodecSegments ==
    [src_port : {80, 65535}, dest_port : {0, 443},
     seq_num : {Num(0, 1000), Num(256, 1), Num(65535, 65535), Num(65536, 0)},
     ack_num : {NumOf(0), Num(1, 2)},
     flags : {0, 24, 255}, window_size : {0, 65535},
     checksum : {0, 258, 65536}, urgent_ptr : {0, 65536},
     payload : CodecPayloads]

\* wire = seg.serialize()
Pack(seg) ==
    /\ codec.pc = "idle"
    /\ codec' = [pc |-> IF serialize(seg) = StructError THEN "failed" ELSE "packed",
                 seg |-> seg, wire |-> serialize(seg)]
    /\ UNCHANGED <<conn, now, isn, sent, lost, last, net>>

\* out = TCPSegment.deserialize(wire)
Unpack ==
    /\ codec.pc = "packed"
    /\ codec' = [pc |-> "done", seg |-> codec.seg, wire |-> codec.wire,
                 out |-> deserialize(codec.wire)]
    /\ UNCHANGED <<conn, now, isn, sent, lost, last, net>>

\* the byte strings that come off the wire: every length from none to four
\* bytes past the longest header, with a data-offset byte of 0, 5, 6 or 15
\* words and the other bytes counting up from a start value
MaxWire == 24 + MaxPayload
OffsetBytes == {0, 80, 96, 240}
WireInputs ==
    {[i \in 1..n |-> IF i = 13 THEN o ELSE (b + i) % 256] :
        n \in 0..MaxWire, o \in OffsetBytes, b \in CodecBytes}

\* out = TCPSegment.deserialize(data) on bytes received
Parse(data) ==
    /\ codec.pc = "idle"
    /\ codec' = [pc |-> "parsed", wire |-> data, out |-> deserialize(data)]
    /\ UNCHANGED <<conn, now, isn, sent, lost, last, net>>

NextCodec ==
    \/ codec.pc = "idle" /\ \E seg \in CodecSegments : Pack(seg)
    \/ Unpack
    \/ \E data \in WireInputs : Parse(data)

SpecCodec == Init /\ [][NextCodec]_vars

\* the variables of the TCP connections and of the segment codec
tcp == <<conn, now, isn, sent, lost, last, codec>>
\* Python's None
None == "None"

\* --------------------------------------- two threads on one connection
\* SpecRace: once connection "A" is established and has data outstanding, one
\* thread calls receive_ack on it and another handle_timeout.  The code takes
\* no lock, so the interpreter may switch threads between any two statements;
\* a thread's step here is one statement or a run of statements, and the
\* clock stands still while the two calls run.
RaceConn == "A"
Idle == \A t \in Threads : thr[t].pc = "idle"
\* a removed entry's slot in the dictionary's entry array
Tombstone == Num(-1, -1)
RuntimeError == "RuntimeError"

\* both calls are made; neither has run a statement yet
StartCalls(ack_segment) ==
    /\ Idle
    /\ state[RaceConn] = "ESTABLISHED"
    /\ unacked_segments[RaceConn] # <<>>
    /\ thr' = [thr EXCEPT !["ack"] = [pc |-> "called", arg |-> ack_segment],
                          !["timer"] = [pc |-> "called"]]
    /\ last' = Call(RaceConn, "concurrent", ack_segment, FALSE, <<>>)
    /\ UNCHANGED <<conn, now, isn, sent, lost, codec, mac, buffer, udp, lsr, lsas, route>>

\* receive_ack, lines 181-183: the list of the dictionary's keys
ack_enter ==
    /\ thr["ack"].pc = "called"
    /\ thr' = [thr EXCEPT !["ack"] =
                  [pc |-> "loop", arg |-> @.arg, i |-> 1,
                   keys |-> [i \in 1..Len(unacked_segments[RaceConn]) |->
                                unacked_segments[RaceConn][i].seq]]]
    /\ UNCHANGED <<tcp, mac, buffer, udp, lsr, lsas, route>>

\* the entry array after pop(k): on the timer thread's iterator, if it has one
Popped(t, k) ==
    IF t.pc \in {"next", "test", "store"}
    THEN [t EXCEPT !.slots = [p \in 1..Len(@) |-> IF @[p] = k THEN Tombstone ELSE @[p]]]
    ELSE t

\* receive_ack, lines 183-185 and 197: the next key of the list is tested
\* and popped, or the loop is over and send_window is assigned
ack_step ==
    LET a == thr["ack"]
        un == unacked_segments[RaceConn]
    IN  /\ a.pc = "loop"
        /\ IF a.i > Len(a.keys)
           THEN /\ send_window' = [send_window EXCEPT ![RaceConn] = a.arg.window_size]
                /\ thr' = [thr EXCEPT !["ack"] = [pc |-> "done", arg |-> a.arg]]
                /\ UNCHANGED unacked_segments
           ELSE IF NumLess(a.keys[a.i], a.arg.ack_num)
           THEN /\ unacked_segments' =
                       [unacked_segments EXCEPT ![RaceConn] = DictPop(un, a.keys[a.i])]
                /\ thr' = [thr EXCEPT
                       !["ack"] = [pc |-> "popped", arg |-> a.arg, i |-> a.i,
                                   keys |-> a.keys,
                                   e |-> un[CHOOSE j \in 1..Len(un) :
                                               un[j].seq = a.keys[a.i]]],
                       !["timer"] = Popped(@, a.keys[a.i])]
                /\ UNCHANGED send_window
           ELSE /\ thr' = [thr EXCEPT !["ack"].i = @ + 1]
                /\ UNCHANGED <<unacked_segments, send_window>>
        /\ UNCHANGED <<state, seq_num, ack_num, expected_seq, congestion_window,
                       ssthresh, srtt, rttvar, rto, now, isn, sent, lost, last,
                       codec, mac, buffer, udp, lsr, lsas, route>>

\* receive_ack, lines 187-195, for the entry just popped
ack_update ==
    LET a == thr["ack"]
        r == Retire(RaceConn, a.e,
                 [un |-> unacked_segments[RaceConn], srtt |-> srtt[RaceConn],
                  rttvar |-> rttvar[RaceConn], rto |-> rto[RaceConn],
                  cwnd |-> congestion_window[RaceConn]])
    IN  /\ a.pc = "popped"
        /\ srtt' = [srtt EXCEPT ![RaceConn] = r.srtt]
        /\ rttvar' = [rttvar EXCEPT ![RaceConn] = r.rttvar]
        /\ rto' = [rto EXCEPT ![RaceConn] = r.rto]
        /\ congestion_window' = [congestion_window EXCEPT ![RaceConn] = r.cwnd]
        /\ thr' = [thr EXCEPT !["ack"] =
                      [pc |-> "loop", arg |-> a.arg, i |-> a.i + 1, keys |-> a.keys]]
        /\ UNCHANGED <<state, seq_num, ack_num, expected_seq, send_window, ssthresh,
                       unacked_segments, now, isn, sent, lost, last,
                       codec, mac, buffer, udp, lsr, lsas, route>>

\* handle_timeout, lines 200-203: the clock is read and the iterator over the
\* dictionary's items is made; slots is the dictionary's entry array from
\* then on, used its size and remaining the items the iterator still expects
timer_enter ==
    /\ thr["timer"].pc = "called"
    /\ thr' = [thr EXCEPT !["timer"] =
                  [pc |-> "next", current_time |-> Secs(now), retransmitted |-> <<>>,
                   item |-> None,
                   slots |-> [i \in 1..Len(unacked_segments[RaceConn]) |->
                                 unacked_segments[RaceConn][i].seq],
                   pos |-> 1,
                   used |-> Len(unacked_segments[RaceConn]),
                   remaining |-> Len(unacked_segments[RaceConn])]]
    /\ UNCHANGED <<tcp, mac, buffer, udp, lsr, lsas, route>>

\* the iterator's next item: RuntimeError if the dictionary's size has
\* changed, the end of the loop (line 211) if no entry is left in the array,
\* else the next entry; for an entry the iterator does not expect CPython 3.8
\* and later raise RuntimeError and earlier versions yield it
timer_next ==
    LET t == thr["timer"]
        un == unacked_segments[RaceConn]
        live == {p \in 1..Len(t.slots) : p >= t.pos /\ t.slots[p] # Tombstone}
        first == CHOOSE p \in live : \A q \in live : p <= q
        raised == [pc |-> "done", err |-> RuntimeError, ret |-> <<>>]
    IN  /\ t.pc = "next"
        /\ IF t.used # Len(un) THEN thr' = [thr EXCEPT !["timer"] = raised]
           ELSE IF live = {}
           THEN thr' = [thr EXCEPT !["timer"] =
                           [pc |-> "done", err |-> None, ret |-> t.retransmitted]]
           ELSE \/ /\ t.remaining = 0
                   /\ thr' = [thr EXCEPT !["timer"] = raised]
                \/ thr' = [thr EXCEPT !["timer"] =
                              [t EXCEPT !.pc = "test", !.pos = first + 1,
                                        !.remaining = @ - 1,
                                        !.item = un[CHOOSE j \in 1..Len(un) :
                                                       un[j].seq = t.slots[first]]]]
        /\ UNCHANGED <<tcp, mac, buffer, udp, lsr, lsas, route>>

\* handle_timeout, lines 204-205
timer_test ==
    LET t == thr["timer"]
    IN  /\ t.pc = "test"
        /\ thr' = [thr EXCEPT !["timer"] =
                      IF Expired(RaceConn, t.item, t.current_time)
                      THEN [t EXCEPT !.pc = "store",
                                     !.retransmitted = Append(@, t.item.segment)]
                      ELSE [t EXCEPT !.pc = "next"]]
        /\ UNCHANGED <<tcp, mac, buffer, udp, lsr, lsas, route>>

\* handle_timeout, lines 206-209
timer_store ==
    LET t == thr["timer"]
        un == unacked_segments[RaceConn]
    IN  /\ t.pc = "store"
        /\ unacked_segments' = [unacked_segments EXCEPT ![RaceConn] =
                                   DictSet(un, t.item.seq, t.item.segment, t.current_time)]
        /\ ssthresh' = [ssthresh EXCEPT ![RaceConn] =
                           IF congestion_window[RaceConn] \div 2 > 2 * MSS
                           THEN congestion_window[RaceConn] \div 2 ELSE 2 * MSS]
        /\ congestion_window' = [congestion_window EXCEPT ![RaceConn] = MSS]
        /\ lost' = [lost EXCEPT ![RaceConn] = TRUE]
        /\ thr' = [thr EXCEPT !["timer"] =
                      [t EXCEPT !.pc = "next",
                                !.slots = IF t.item.seq \in Keys(un) THEN @
                                          ELSE Append(@, t.item.seq)]]
        /\ UNCHANGED <<state, seq_num, ack_num, expected_seq, send_window,
                       srtt, rttvar, rto, now, isn, sent, last,
                       codec, mac, buffer, udp, lsr, lsas, route>>

\* lengths of the byte strings handed to send_data before the two calls
RaceLens == {21, 3000}

NextRace ==
    \/ Idle /\ Tick(MaxTime)
    \/ \E c \in Conns : Idle /\ Listen(c)
    \/ \E c \in Conns : Idle /\ state[c] = "CLOSED" /\ connect(c)
    \/ \E c \in Conns : \E s \in Syns(c) :
          Idle /\ state[c] = "LISTEN" /\ accept_connection(c, s)
    \/ \E c \in Conns : \E s \in SynAcks(c) :
          Idle /\ state[c] = "SYN_SENT" /\ complete_handshake(c, s)
    \/ \E c \in Conns : \E len \in RaceLens :
          Idle /\ state[c] = "ESTABLISHED" /\ CanSend(c, len, MaxSegs) /\ send_data(c, len)
    \/ \E c \in Conns : \E s \in LossAcks(c) : Idle /\ receive_ack(c, s)
    \/ \E s \in LossAcks(RaceConn) : StartCalls(s)
    \/ ack_enter
    \/ ack_step
    \/ ack_update
    \/ timer_enter
    \/ timer_next
    \/ timer_test
    \/ timer_store

SpecRace == Init /\ [][NextRace]_vars

\* ------------------------------------------------------------- UDPSocket
MaxVaried == 2      \* buffer length below which an arriving payload varies

UDPDatagram(sp, dp, pl) ==
    [src_port |-> sp, dest_port |-> dp, length |-> Len(pl) + 8, checksum |-> 0,
     payload |-> pl]
\* the datagrams that arrive: for the socket's port or for another one, with
\* an empty, a one-byte or a two-byte payload
UDPPayloads == {<<>>, <<77>>, <<77, 49>>}
Datagrams == {UDPDatagram(1234, dp, pl) : dp \in {port, 53}, pl \in UDPPayloads}

\* mutant: the buffer is full only above max_buffer_size
receive_leq(datagram) ==
    /\ IF datagram.dest_port # port
       THEN buffer' = buffer /\ udp' = [op |-> "receive", arg |-> datagram,
                                         ret |-> FALSE, pre |-> buffer]
       ELSE IF Len(buffer) <= max_buffer_size
       THEN buffer' = Append(buffer, datagram)
            /\ udp' = [op |-> "receive", arg |-> datagram, ret |-> TRUE, pre |-> buffer]
       ELSE buffer' = buffer /\ udp' = [op |-> "receive", arg |-> datagram,
                                         ret |-> FALSE, pre |-> buffer]
    /\ UNCHANGED <<tcp, mac, lsr, lsas, route, thr>>

\* UDPSocket.receive; udp records the call, its result and the buffer on entry
receive(datagram) ==
    /\ IF datagram.dest_port # port
       THEN buffer' = buffer /\ udp' = [op |-> "receive", arg |-> datagram,
                                         ret |-> FALSE, pre |-> buffer]
       ELSE IF Len(buffer) < max_buffer_size
       THEN buffer' = Append(buffer, datagram)
            /\ udp' = [op |-> "receive", arg |-> datagram, ret |-> TRUE, pre |-> buffer]
       ELSE buffer' = buffer /\ udp' = [op |-> "receive", arg |-> datagram,
                                         ret |-> FALSE, pre |-> buffer]
    /\ UNCHANGED <<tcp, mac, lsr, lsas, route, thr>>

\* UDPSocket.read
read ==
    /\ IF buffer # <<>>
       THEN buffer' = Tail(buffer)
            /\ udp' = [op |-> "read", arg |-> NoArg, ret |-> Head(buffer).payload,
                       pre |-> buffer]
       ELSE buffer' = buffer
            /\ udp' = [op |-> "read", arg |-> NoArg, ret |-> <<>>, pre |-> buffer]
    /\ UNCHANGED <<tcp, mac, lsr, lsas, route, thr>>

\* a behaviour varies the payload of the datagrams that arrive while the
\* buffer is short; the ones that fill it up carry the one-byte payload
Arrives(datagram) ==
    Len(buffer) < MaxVaried \/ datagram.payload = <<77>>

NextUDP ==
    \/ \E datagram \in Datagrams : Arrives(datagram) /\ receive(datagram)
    \/ read

SpecUDP == Init /\ [][NextUDP]_vars

\* ------------------------------------------------------- LinkStateRouter
MaxLsa == 2         \* LSAs a router generates in a behaviour

\* a Python dict in insertion order: a sequence of items [k, v]
Has(d, k) == \E i \in 1..Len(d) : d[i].k = k
Get(d, k) == d[CHOOSE i \in 1..Len(d) : d[i].k = k].v
Put(d, k, v) ==
    IF Has(d, k)
    THEN [i \in 1..Len(d) |-> IF d[i].k = k THEN [k |-> k, v |-> v] ELSE d[i]]
    ELSE Append(d, [k |-> k, v |-> v])
\* d.update(e), from item i of e
RECURSIVE Update(_, _, _)
Update(d, e, i) ==
    IF i > Len(e) THEN d ELSE Update(Put(d, e[i].k, e[i].v), e, i + 1)

\* the topology of test_link_state_convergence: A - B at cost 1, B - C at cost 2
Links == {<<"A", "B", 1>>, <<"B", "A", 1>>, <<"B", "C", 2>>}
\* float('inf'): above every path cost
Inf == 1000000
KeyError == "KeyError"

\* a call on router r: what it returned, or the exception it raised
RouterCall(r, op, arg, ret, err) ==
    [r |-> r, op |-> op, arg |-> arg, ret |-> ret, err |-> err]

add_neighbor(r, neighbor_id, cost) ==
    /\ lsr' = [lsr EXCEPT ![r].neighbors = Put(@, neighbor_id, cost)]
    /\ route' = RouterCall(r, "add_neighbor", <<neighbor_id, cost>>, None, None)
    /\ UNCHANGED <<tcp, mac, buffer, udp, lsas, thr>>

\* generate_lsa; the LSA it returns can be handed to any router from then on
generate_lsa(r) ==
    LET lsa == [node_id |-> lsr[r].node_id,
                seq_num |-> lsr[r].sequence_number + 1,
                neighbors |-> lsr[r].neighbors]
    IN  /\ lsr' = [lsr EXCEPT ![r].sequence_number = @ + 1]
        /\ lsas' = lsas \cup {lsa}
        /\ route' = RouterCall(r, "generate_lsa", NoArg, lsa, None)
        /\ UNCHANGED <<tcp, mac, buffer, udp, thr>>

\* the for loop of receive_lsa over neighbors.items(), from item i, on
\* links = link_state_db[node_id]: the first new or newer link is stored
\* and the call returns True
RECURSIVE lsa_loop(_, _, _, _)
lsa_loop(links, seqno, neighbors, i) ==
    IF i > Len(neighbors) THEN [links |-> links, ret |-> FALSE]
    ELSE IF \/ ~Has(links, neighbors[i].k)
            \/ Get(links, neighbors[i].k).seq < seqno
    THEN [links |-> Put(links, neighbors[i].k,
                        [cost |-> neighbors[i].v, seq |-> seqno]),
          ret |-> TRUE]
    ELSE lsa_loop(links, seqno, neighbors, i + 1)

receive_lsa(r, lsa) ==
    LET db == IF Has(lsr[r].link_state_db, lsa.node_id)
              THEN lsr[r].link_state_db
              ELSE Put(lsr[r].link_state_db, lsa.node_id, <<>>)
        res == lsa_loop(Get(db, lsa.node_id), lsa.seq_num, lsa.neighbors, 1)
    IN  /\ lsr' = [lsr EXCEPT ![r].link_state_db = Put(db, lsa.node_id, res.links)]
        /\ route' = RouterCall(r, "receive_lsa", lsa, res.ret, None)
        /\ UNCHANGED <<tcp, mac, buffer, udp, lsas, thr>>

\* the graph compute_routing_table builds: the database's links without their
\* sequence numbers, then the router's own neighbors
Graph(r) ==
    LET db == lsr[r].link_state_db
        g == [i \in 1..Len(db) |->
                [k |-> db[i].k,
                 v |-> [j \in 1..Len(db[i].v) |->
                          [k |-> db[i].v[j].k, v |-> db[i].v[j].v.cost]]]]
        own == IF Has(g, lsr[r].node_id) THEN g ELSE Put(g, lsr[r].node_id, <<>>)
    IN  Put(own, lsr[r].node_id, Update(Get(own, lsr[r].node_id), lsr[r].neighbors, 1))

\* the for loop of compute_shortest_paths over the links of `current`, from
\* item i, on st = [distances, parents, visited, pq, err]; distances[neighbor]
\* raises KeyError for a neighbor that is no key of the graph
RECURSIVE relax(_, _, _, _)
relax(graph, current, i, st) ==
    IF st.err # None \/ i > Len(Get(graph, current)) THEN st
    ELSE LET neighbor == Get(graph, current)[i].k
             weight == Get(graph, current)[i].v
             new_dist == st.distances[current] + weight
         IN  IF neighbor \in st.visited THEN relax(graph, current, i + 1, st)
             ELSE IF neighbor \notin DOMAIN st.distances
             THEN [st EXCEPT !.err = KeyError]
             ELSE IF new_dist < st.distances[neighbor]
             THEN relax(graph, current, i + 1,
                      [st EXCEPT !.distances[neighbor] = new_dist,
                                 !.parents[neighbor] = current,
                                 !.pq = @ \cup {[cost |-> new_dist, node |-> neighbor]}])
             ELSE relax(graph, current, i + 1, st)

\* the while loop of compute_shortest_paths; heappop takes a node of least
\* cost (a graph here has at most two keys, so no two nodes tie in pq)
RECURSIVE dijkstra(_, _)
dijkstra(graph, st) ==
    IF st.err # None \/ st.pq = {} THEN st
    ELSE LET current == CHOOSE x \in st.pq : \A y \in st.pq : x.cost <= y.cost
             popped == [st EXCEPT !.pq = @ \ {current}]
         IN  IF current.node \in st.visited THEN dijkstra(graph, popped)
             ELSE dijkstra(graph,
                      relax(graph, current.node, 1,
                            [popped EXCEPT !.visited = @ \cup {current.node}]))

compute_shortest_paths(graph, source) ==
    LET nodes == {graph[i].k : i \in 1..Len(graph)}
    IN  dijkstra(graph,
            [distances |-> [n \in nodes |-> IF n = source THEN 0 ELSE Inf],
             parents |-> [n \in nodes |-> None],
             visited |-> {},
             pq |-> {[cost |-> 0, node |-> source]},
             err |-> None])

\* the path the parents give for a node, from the source's end
RECURSIVE PathTo(_, _)
PathTo(parents, node) ==
    IF node = None THEN <<>> ELSE Append(PathTo(parents, parents[node]), node)

\* the interface name f"eth{hash(next_hop) % 4}": one name per next hop
EthOf(next_hop) == <<"eth", next_hop>>

\* build_routing_table: an entry for every other key of the graph whose path
\* has more than one node, in the graph's order
RECURSIVE table_loop(_, _, _, _, _)
table_loop(graph, source, sp, i, table) ==
    IF i > Len(graph) THEN table
    ELSE LET dest == graph[i].k
             path == PathTo(sp.parents, dest)
         IN  table_loop(graph, source, sp, i + 1,
                 IF dest # source /\ Len(path) > 1
                 THEN Put(table, dest,
                          [destination |-> dest, next_hop |-> path[2],
                           cost |-> sp.distances[dest], interface |-> EthOf(path[2])])
                 ELSE table)

compute_routing_table(r) ==
    LET graph == Graph(r)
        sp == compute_shortest_paths(graph, lsr[r].node_id)
    IN  /\ route' = IF sp.err # None
                    THEN RouterCall(r, "compute_routing_table", NoArg, None, sp.err)
                    ELSE RouterCall(r, "compute_routing_table", NoArg,
                             table_loop(graph, lsr[r].node_id, sp, 1, <<>>), None)
        /\ UNCHANGED <<tcp, mac, buffer, udp, lsr, lsas, thr>>

NextRouting ==
    \/ \E l \in Links : add_neighbor(l[1], l[2], l[3])
    \/ \E r \in Routers : lsr[r].sequence_number < MaxLsa /\ generate_lsa(r)
    \/ \E r \in Routers : \E lsa \in lsas : lsa.node_id # r /\ receive_lsa(r, lsa)
    \/ \E r \in Routers : compute_routing_table(r)

SpecRouting == Init /\ [][NextRouting]_vars

\* ------------------------------------------------------- CSMACD.transmit
MaxSlots == 1       \* the backoff draws random.randint returns are 0..MaxSlots

Min(a, b) == IF a < b THEN a ELSE b

\* transmit(data) is called on the idle station: retries = 0
transmit ==
    /\ mac.pc = "idle"
    /\ mac' = [pc |-> "while", state |-> mac.state, stats |-> mac.stats,
               retries |-> 0]
    /\ UNCHANGED <<tcp, buffer, udp, lsr, lsas, route, thr>>

\* mutant: the loop runs while retries <= max_retries
while_test_leq ==
    /\ mac.pc = "while"
    /\ mac' = IF mac.retries <= max_retries
              THEN [mac EXCEPT !.pc = "sense"]
              ELSE [pc |-> "returned", state |-> mac.state, stats |-> mac.stats,
                    retries |-> mac.retries, ret |-> FALSE]
    /\ UNCHANGED <<tcp, buffer, udp, lsr, lsas, route, thr>>

\* the test of the while loop, and `return False` when it fails
while_test ==
    /\ mac.pc = "while"
    /\ mac' = IF mac.retries < max_retries
              THEN [mac EXCEPT !.pc = "sense"]
              ELSE [pc |-> "returned", state |-> mac.state, stats |-> mac.stats,
                    retries |-> mac.retries, ret |-> FALSE]
    /\ UNCHANGED <<tcp, buffer, udp, lsr, lsas, route, thr>>

\* _sense_channel() returns True (random.random() < 0.3): sleep and continue
sense_busy ==
    /\ mac.pc = "sense"
    /\ mac' = [mac EXCEPT !.pc = "while"]
    /\ UNCHANGED <<tcp, buffer, udp, lsr, lsas, route, thr>>

\* _sense_channel() returns False: the attempt starts
sense_idle ==
    /\ mac.pc = "sense"
    /\ mac' = [mac EXCEPT !.pc = "start", !.state = "TRANSMITTING",
                          !.stats.transmissions = @ + 1]
    /\ UNCHANGED <<tcp, buffer, udp, lsr, lsas, route, thr>>

\* _start_transmission(data) returns True, collision_detect_fn() having
\* returned False: `return True`
start_success ==
    /\ mac.pc = "start"
    /\ mac' = [pc |-> "returned", state |-> "IDLE",
               stats |-> [mac.stats EXCEPT !.successful_transmissions = @ + 1],
               retries |-> mac.retries, ret |-> TRUE]
    /\ UNCHANGED <<tcp, buffer, udp, lsr, lsas, route, thr>>

\* _start_transmission(data) returns False: a collision, up to _jam_signal()
start_collision ==
    /\ mac.pc = "start"
    /\ mac' = [mac EXCEPT !.pc = "jam", !.state = "COLLISION",
                          !.stats.collisions = @ + 1]
    /\ UNCHANGED <<tcp, buffer, udp, lsr, lsas, route, thr>>

\* after the jam signal: the backoff draw of random.randint(0, min(2**retries
\* - 1, 1023)), added to the statistics, up to the sleep
backoff(backoff_slots) ==
    /\ mac.pc = "jam"
    /\ backoff_slots <= Min(Pow2(mac.retries) - 1, 1023)
    /\ mac' = [mac EXCEPT !.pc = "sleep", !.state = "BACKOFF",
                          !.stats.backoff_slots = @ + backoff_slots]
    /\ UNCHANGED <<tcp, buffer, udp, lsr, lsas, route, thr>>

\* after the sleep: retries += 1 and the station is IDLE for the next test
end_iteration ==
    /\ mac.pc = "sleep"
    /\ mac' = [mac EXCEPT !.pc = "while", !.state = "IDLE", !.retries = @ + 1]
    /\ UNCHANGED <<tcp, buffer, udp, lsr, lsas, route, thr>>

NextMac ==
    \/ transmit
    \/ while_test
    \/ sense_busy
    \/ sense_idle
    \/ start_success
    \/ start_collision
    \/ \E backoff_slots \in 0..MaxSlots : backoff(backoff_slots)
    \/ end_iteration

\* SpecMac: one transmit call on a new station. Every step of the call is
\* taken in the end, and a channel that is sensed again and again is found
\* idle in the end: each random.random() < 0.3 is an independent draw
SpecMac ==
    Init /\ [][NextMac]_vars /\ WF_vars(NextMac) /\ SF_vars(sense_idle)

\* ------------------------------------------------------------ properties
RECURSIVE SumLens(_, _)
SumLens(un, i) ==
    IF i > Len(un) THEN 0 ELSE PayloadLen(un[i].segment.payload) + SumLens(un, i + 1)
\* total payload bytes held in the unacked map
UnackedBytes(un) == SumLens(un, 1)
Called(c, op) == last.c = c /\ last.op = op /\ ~last.err
Max(a, b) == IF a > b THEN a ELSE b

\* C1: a send_data call that emits a segment leaves no more payload bytes in
\* the unacked map than the congestion window allows
C1_InFlightWithinWindow ==
    \A c \in Conns :
        (Called(c, "send_data") /\ last.ret # <<>>)
            => UnackedBytes(unacked_segments[c]) <= congestion_window[c]

\* C2: once A's connect, B's accept_connection of that SYN and A's
\* complete_handshake of B's SYN+ACK have run, A and B are both ESTABLISHED
HandshakeRun ==
    /\ Called("A", "complete_handshake")
    /\ last.arg.flags = SYNACK
    /\ last.arg.src_port = src_port("B")
    /\ last.arg.ack_num = NumAdd(isn["A"], 1)
    /\ expected_seq["B"] = NumAdd(isn["A"], 1)
C2_BothEstablished ==
    HandshakeRun => state["A"] = "ESTABLISHED" /\ state["B"] = "ESTABLISHED"

\* C3: receive_ack with ack number a leaves in the unacked map exactly the
\* entries that start at or above a, in their order, each with the segment
\* and timestamp it had
C3_AckRetiresBelow ==
    \A c \in Conns :
        Called(c, "receive_ack") =>
            unacked_segments[c] =
                SelectSeq(last.pre.unacked_segments,
                          LAMBDA e : ~NumLess(e.seq, last.arg.ack_num))
\* one ack retired two of three outstanding entries and left the third
C3_Witness ==
    \E c \in Conns :
        /\ Called(c, "receive_ack")
        /\ Len(last.pre.unacked_segments) = 3
        /\ Len(unacked_segments[c]) = 1

\* C4: a receive_ack call that retires two or more entries grows the
\* congestion window by one increment
C4_OneIncreasePerAck ==
    \A c \in Conns :
        (/\ Called(c, "receive_ack")
         /\ Len(last.pre.unacked_segments) - Len(unacked_segments[c]) >= 2)
            => congestion_window[c] =
                   IF last.pre.congestion_window < last.pre.ssthresh
                   THEN last.pre.congestion_window + 1460
                   ELSE last.pre.congestion_window
                          + ((1460 * 1460) \div last.pre.congestion_window)

\* C5: a handle_timeout call that found an expired entry leaves
\* ssthresh = max(W \div 2, 2 * 1460) and congestion_window = 1460, W being the
\* window on entry; one that found none leaves both as they were
C5_LossResponse ==
    \A c \in Conns :
        Called(c, "handle_timeout") =>
            IF last.ret # <<>>
            THEN /\ ssthresh[c] = Max(last.pre.congestion_window \div 2, 2 * 1460)
                 /\ congestion_window[c] = 1460
            ELSE /\ ssthresh[c] = last.pre.ssthresh
                 /\ congestion_window[c] = last.pre.congestion_window

\* C6: handle_timeout at time t returns, in the map's order, the segments of
\* the entries with t - send_time > rto, stamps those entries with t and
\* leaves the timestamp of every other entry as it was
C6_IsExpired(e) == DyLess(last.pre.rto, Secs(last.at - e.send_time.n))
C6_TimeoutReturnsExpired ==
    \A c \in Conns :
        Called(c, "handle_timeout") =>
            LET old == last.pre.unacked_segments
                due == SelectSeq(old, C6_IsExpired)
            IN  /\ last.ret = [i \in 1..Len(due) |-> due[i].segment]
                /\ Len(unacked_segments[c]) = Len(old)
                /\ \A i \in 1..Len(old) :
                      unacked_segments[c][i].send_time =
                          IF C6_IsExpired(old[i]) THEN Secs(last.at)
                          ELSE old[i].send_time
\* a timeout check that retransmitted one entry and left a younger one alone
C6_Witness ==
    \E c \in Conns :
        /\ Called(c, "handle_timeout")
        /\ Len(last.ret) >= 1
        /\ Len(last.ret) < Len(unacked_segments[c])

\* C7: handle_timeout leaves the keys of the unacked map, their order and the
\* segment stored under each key as they were
C7_TimeoutKeepsEntries ==
    \A c \in Conns :
        Called(c, "handle_timeout") =>
            /\ Len(unacked_segments[c]) = Len(last.pre.unacked_segments)
            /\ \A i \in 1..Len(last.pre.unacked_segments) :
                  /\ unacked_segments[c][i].seq = last.pre.unacked_segments[i].seq
                  /\ unacked_segments[c][i].segment = last.pre.unacked_segments[i].segment
\* a timeout check that retransmitted a segment
C7_Witness ==
    \E c \in Conns :
        /\ Called(c, "handle_timeout")
        /\ last.ret # <<>>
        /\ unacked_segments[c] # last.pre.unacked_segments

\* C8: a receive_ack call that directly follows a receive_ack call on the same
\* connection and carries the same or a smaller ack number changes no field
\* of the connection
C8_DuplicateAckNoOp ==
    [][\A c \in Conns :
          (/\ Called(c, "receive_ack")
           /\ Called(c, "receive_ack")'
           /\ last' # last
           /\ NumLeq(last'.arg.ack_num, last.arg.ack_num))
              => Fields(c)' = Fields(c)]_vars

\* C9: connect, accept_connection, complete_handshake, send_data and
\* close_connection raise exactly when the connection is not in the state the
\* operation requires
C9_RequiredState ==
    [connect |-> "CLOSED", accept_connection |-> "LISTEN",
     complete_handshake |-> "SYN_SENT", send_data |-> "ESTABLISHED",
     close_connection |-> "ESTABLISHED"]
C9_ErrorIffWrongState ==
    last.op \in DOMAIN C9_RequiredState =>
        (last.err <=> last.pre.state # C9_RequiredState[last.op])
\* complete_handshake raised on a connection that had left SYN_SENT
C9_Witness ==
    /\ last.op = "complete_handshake"
    /\ last.err
    /\ last.pre.state = "ESTABLISHED"

\* C10: a call that raised because of the connection state left every field
\* of the connection as it was on entry
C10_ErrorLeavesFields ==
    last.err => Fields(last.c) = last.pre
\* send_data raised on a closing connection with data still unacknowledged
C10_Witness ==
    /\ last.err
    /\ last.op = "send_data"
    /\ last.pre.unacked_segments # <<>>

\* bit b (a power of two) of a flags byte is set
HasFlag(flags, b) == (flags \div b) % 2 = 1

\* C11: connect() on a CLOSED connection leaves it in SYN_SENT and returns one
\* segment with SYN set and ACK clear, the connection's initial sequence
\* number, and the connection's local and remote ports
C11_ConnectSendsSyn ==
    \A c \in Conns :
        Called(c, "connect") =>
            /\ last.pre.state = "CLOSED"
            /\ state[c] = "SYN_SENT"
            /\ Len(last.ret) = 1
            /\ HasFlag(last.ret[1].flags, 2)
            /\ ~HasFlag(last.ret[1].flags, 16)
            /\ last.ret[1].seq_num = isn[c]
            /\ last.ret[1].src_port = src_port(c)
            /\ last.ret[1].dest_port = dest_port(c)
\* the client has called connect()
C11_Witness == Called("A", "connect") /\ state["A"] = "SYN_SENT"

\* C12: accept_connection(syn) on a LISTEN connection leaves it in
\* SYN_RECEIVED and returns one segment with flags 0x12, ack_num = syn.seq_num + 1
\* and destination port syn.src_port
C12_AcceptSendsSynAck ==
    \A c \in Conns :
        Called(c, "accept_connection") =>
            /\ last.pre.state = "LISTEN"
            /\ state[c] = "SYN_RECEIVED"
            /\ Len(last.ret) = 1
            /\ last.ret[1].flags = 18
            /\ last.ret[1].ack_num = NumAdd(last.arg.seq_num, 1)
            /\ last.ret[1].dest_port = last.arg.src_port
\* the server has accepted the client's SYN
C12_Witness ==
    /\ Called("B", "accept_connection")
    /\ last.arg.seq_num = isn["A"]
    /\ last.arg.src_port = src_port("A")

\* C13: complete_handshake(syn_ack) on a SYN_SENT connection leaves it in
\* ESTABLISHED with ack_num = syn_ack.seq_num + 1 and returns one segment with
\* the ACK flag and that ack_num
C13_CompleteSendsAck ==
    \A c \in Conns :
        Called(c, "complete_handshake") =>
            /\ last.pre.state = "SYN_SENT"
            /\ state[c] = "ESTABLISHED"
            /\ ack_num[c] = NumAdd(last.arg.seq_num, 1)
            /\ Len(last.ret) = 1
            /\ HasFlag(last.ret[1].flags, 16)
            /\ last.ret[1].ack_num = NumAdd(last.arg.seq_num, 1)
\* the client has completed the handshake with the server's SYN+ACK
C13_Witness ==
    /\ Called("A", "complete_handshake")
    /\ last.arg.seq_num = isn["B"]
    /\ ack_num["A"] # last.pre.ack_num

\* C14: close_connection() on an ESTABLISHED connection leaves it in
\* FIN_WAIT_1 and returns one segment with FIN set whose seq_num is the
\* connection's seq_num, which no outstanding data segment reaches past
C14_CloseSendsFin ==
    \A c \in Conns :
        Called(c, "close_connection") =>
            /\ last.pre.state = "ESTABLISHED"
            /\ state[c] = "FIN_WAIT_1"
            /\ Len(last.ret) = 1
            /\ HasFlag(last.ret[1].flags, 1)
            /\ last.ret[1].seq_num = last.pre.seq_num
            /\ \A i \in 1..Len(last.pre.unacked_segments) :
                  LET e == last.pre.unacked_segments[i]
                  IN  NumLeq(NumAdd(e.seq, PayloadLen(e.segment.payload)),
                             last.ret[1].seq_num)
\* a connection closed right after data whose last byte is still unacknowledged
C14_Witness ==
    \E c \in Conns :
        /\ Called(c, "close_connection")
        /\ last.pre.unacked_segments # <<>>
        /\ LET e == last.pre.unacked_segments[Len(last.pre.unacked_segments)]
           IN  NumAdd(e.seq, PayloadLen(e.segment.payload)) = last.ret[1].seq_num

\* C15: the first data segment a connection emits after connect() and
\* complete_handshake() carries the initial sequence number + 1, and
\* close_connection() advances the connection's seq_num by 1
C15_ControlSegmentsAdvanceSeq ==
    \A c \in Conns :
        /\ (/\ Called(c, "send_data")
            /\ last.ret # <<>>
            /\ sent[c] = Len(last.ret))
               => last.ret[1].seq_num = NumAdd(isn[c], 1)
        /\ Called(c, "close_connection")
               => seq_num[c] = NumAdd(last.pre.seq_num, 1)

RECURSIVE SumPayloads(_, _)
SumPayloads(segs, i) ==
    IF i > Len(segs) THEN 0 ELSE PayloadLen(segs[i].payload) + SumPayloads(segs, i + 1)

\* C16: after send_data every returned segment is in the unacked map under
\* its own seq_num, each returned segment starts where the one before it
\* ends, and seq_num has advanced by the payload bytes returned
C16_SendRecordsSegments ==
    \A c \in Conns :
        Called(c, "send_data") =>
            /\ \A i \in 1..Len(last.ret) :
                  \E j \in 1..Len(unacked_segments[c]) :
                      /\ unacked_segments[c][j].seq = last.ret[i].seq_num
                      /\ unacked_segments[c][j].segment = last.ret[i]
            /\ \A i \in 1..(Len(last.ret) - 1) :
                  last.ret[i + 1].seq_num =
                      NumAdd(last.ret[i].seq_num, PayloadLen(last.ret[i].payload))
            /\ seq_num[c] = NumAdd(last.pre.seq_num, SumPayloads(last.ret, 1))
\* a send_data call that returned two segments
C16_Witness ==
    \E c \in Conns : Called(c, "send_data") /\ Len(last.ret) >= 2

\* C17: with congestion_window = 1460 and nothing outstanding, send_data of
\* more than 1460 bytes returns one segment holding bytes 0..1459; while
\* congestion_window = 1460 and an entry is outstanding send_data returns no
\* segment, and that stays so until the entry leaves the unacked map
C17_Blocked(c) ==
    congestion_window[c] = 1460 /\ Len(unacked_segments[c]) = 1
C17_OneSegmentUntilAck ==
    /\ [](\A c \in Conns :
            Called(c, "send_data") =>
              /\ (/\ last.pre.congestion_window = 1460
                  /\ last.pre.unacked_segments = <<>>
                  /\ last.arg > 1460)
                     => /\ Len(last.ret) = 1
                        /\ last.ret[1].payload =
                               [total |-> last.arg, from |-> 0, len |-> 1460]
              /\ (/\ last.pre.congestion_window = 1460
                  /\ last.pre.unacked_segments # <<>>)
                     => /\ last.ret = <<>>
                        /\ Fields(c) = last.pre)
    /\ [][\A c \in Conns :
            (C17_Blocked(c) /\ unacked_segments[c]' # <<>>) => C17_Blocked(c)']_vars
\* a second send_data of 3000 bytes returned nothing while the first segment
\* was outstanding
C17_Witness ==
    \E c \in Conns :
        /\ Called(c, "send_data")
        /\ last.arg = 3000
        /\ last.ret = <<>>
        /\ sent[c] = 1
        /\ C17_Blocked(c)

\* C18: receive_ack with an ack number above seq_num, on an ESTABLISHED
\* connection with congestion_window < ssthresh, leaves congestion_window
\* larger than it was
C18_AckBeyondGrowsWindow ==
    \A c \in Conns :
        (/\ Called(c, "receive_ack")
         /\ last.pre.state = "ESTABLISHED"
         /\ last.pre.congestion_window < last.pre.ssthresh
         /\ NumLess(last.pre.seq_num, last.arg.ack_num))
            => congestion_window[c] > last.pre.congestion_window

\* C19 as claimed: once a handle_timeout call has retransmitted,
\* congestion_window is at least 2 * 1460
C19_WindowFloorClaimed ==
    \A c \in Conns : lost[c] => congestion_window[c] >= 2 * 1460
\* C19 as amended: once a handle_timeout call has retransmitted,
\* congestion_window is at least 1460 and ssthresh is at least 2 * 1460
C19_WindowFloor ==
    \A c \in Conns :
        lost[c] => congestion_window[c] >= 1460 /\ ssthresh[c] >= 2 * 1460
\* a loss was detected and the window has grown again past ssthresh
C19_Witness ==
    \E c \in Conns :
        /\ lost[c]
        /\ ssthresh[c] = 2 * 1460
        /\ congestion_window[c] > ssthresh[c]

\* the fields of a segment that the codec carries, and its run on a segment
\* whose fields are in range: 20 header bytes, then the payload, and the
\* same segment back
C20_InRange(seg) ==
    /\ seg.src_port \in 0..65535 /\ seg.dest_port \in 0..65535
    /\ seg.window_size \in 0..65535
    /\ seg.seq_num.hi \in 0..65535 /\ seg.ack_num.hi \in 0..65535
    /\ seg.flags \in 0..255
C20_RoundTripDone ==
    /\ codec.pc = "done"
    /\ Len(codec.wire) = 20 + Len(codec.seg.payload)
    /\ SubSeq(codec.wire, 21, Len(codec.wire)) = codec.seg.payload
    /\ codec.out.src_port = codec.seg.src_port
    /\ codec.out.dest_port = codec.seg.dest_port
    /\ codec.out.seq_num = codec.seg.seq_num
    /\ codec.out.ack_num = codec.seg.ack_num
    /\ codec.out.flags = codec.seg.flags
    /\ codec.out.window_size = codec.seg.window_size
    /\ codec.out.checksum = codec.seg.checksum
    /\ codec.out.urgent_ptr = codec.seg.urgent_ptr
    /\ codec.out.payload = codec.seg.payload

\* C20 as claimed: a segment whose ports and window fit 16 bits, whose
\* sequence and ack numbers fit 32 bits and whose flags fit 8 bits serializes
\* to 20 header bytes followed by its payload, and deserializing those bytes
\* gives the segment back, field for field
C20_RoundTripClaimed ==
    (codec.pc \in {"failed", "done"} /\ C20_InRange(codec.seg))
        => C20_RoundTripDone
\* C20 as amended: the same, for a segment whose checksum and urgent pointer
\* fit 16 bits too
C20_RoundTrip ==
    (/\ codec.pc \in {"failed", "done"}
     /\ C20_InRange(codec.seg)
     /\ codec.seg.checksum \in 0..65535
     /\ codec.seg.urgent_ptr \in 0..65535)
        => C20_RoundTripDone
\* a segment with mixed-byte fields and a two-byte payload went through
C20_Witness ==
    /\ codec.pc = "done"
    /\ codec.seg.seq_num = Num(256, 1)
    /\ codec.seg.checksum = 258
    /\ codec.seg.dest_port = 443
    /\ codec.seg.payload = <<65, 255>>

\* C21: deserialize raises exactly on the inputs shorter than 20 bytes, and a
\* deserialize that raised changed no field of any connection
C21_ShortInputFails ==
    /\ [](codec.pc \in {"parsed", "done"} =>
            (codec.out = ValueError <=> Len(codec.wire) < 20))
    /\ [][(codec'.pc = "parsed" /\ codec'.out = ValueError)
            => \A c \in Conns : Fields(c)' = Fields(c)]_vars
\* a 19-byte input was refused
C21_Witness ==
    /\ codec.pc = "parsed"
    /\ Len(codec.wire) = 19
    /\ codec.out = ValueError

\* C22: receive_ack of an ack number above the connection's seq_num raises
\* and leaves the connection CLOSED
C22_AckBeyondResets ==
    \A c \in Conns :
        (/\ last.c = c
         /\ last.op = "receive_ack"
         /\ NumLess(last.pre.seq_num, last.arg.ack_num))
            => last.err /\ state[c] = "CLOSED"

\* C24: a step changes the fields of a connection only if it is a call on
\* that connection, so a call on one connection, raising or not, leaves
\* every field of the other as it was
C24_OtherConnectionUntouched ==
    [][\A c \in Conns : Fields(c)' # Fields(c) => last'.c = c]_vars
\* an ack was processed on A, and changed A, while B was in mid-handshake
C24_Witness ==
    /\ Called("A", "receive_ack")
    /\ Fields("A") # last.pre
    /\ state["B"] = "SYN_RECEIVED"
    /\ expected_seq["B"] = NumAdd(isn["A"], 1)

\* C25: a connection that close_connection() has taken out of ESTABLISHED
\* eventually reaches TIME_WAIT
C25_CloseReachesTimeWait ==
    \A c \in Conns : Called(c, "close_connection") ~> (state[c] = "TIME_WAIT")

\* C28: no key of the unacked map is below an ack number receive_ack has
\* processed on the connection: after receive_ack(a), the next call on the
\* connection leaves every key at or above a
C28_KeysAboveAcked ==
    [][\A c \in Conns :
          (last.c = c /\ last.op = "receive_ack" /\ last'.c = c)
              => \A i \in 1..Len(unacked_segments'[c]) :
                    ~NumLess(unacked_segments'[c][i].seq, last.arg.ack_num)]_vars

\* C29: receive_ack with ack number a retires exactly the entries whose whole
\* byte range a covers (seq + payload length <= a); an entry that a falls
\* inside stays
C29_Covered(e) ==
    NumLeq(NumAdd(e.seq, PayloadLen(e.segment.payload)), last.arg.ack_num)
C29_RetiresWhenCovered ==
    \A c \in Conns :
        Called(c, "receive_ack") =>
            unacked_segments[c] =
                SelectSeq(last.pre.unacked_segments, LAMBDA e : ~C29_Covered(e))

\* C30: receive_ack adds, for each entry it retires, 1460 to the window when
\* the window is below ssthresh and 1460 * 1460 \div window otherwise; it
\* never lowers the window and never changes ssthresh
RECURSIVE C30_Increased(_, _, _)
C30_Increased(w, thresh, k) ==
    IF k = 0 THEN w
    ELSE C30_Increased(IF w < thresh THEN w + 1460 ELSE w + ((1460 * 1460) \div w),
                       thresh, k - 1)
C30_WindowIncrease ==
    \A c \in Conns :
        Called(c, "receive_ack") =>
            /\ congestion_window[c] =
                   C30_Increased(last.pre.congestion_window, last.pre.ssthresh,
                       Len(last.pre.unacked_segments) - Len(unacked_segments[c]))
            /\ congestion_window[c] >= last.pre.congestion_window
            /\ ssthresh[c] = last.pre.ssthresh
\* an ack retired an entry with the window at or above ssthresh, and the
\* division left a remainder
C30_Witness ==
    \E c \in Conns :
        /\ Called(c, "receive_ack")
        /\ Len(unacked_segments[c]) < Len(last.pre.unacked_segments)
        /\ last.pre.congestion_window >= last.pre.ssthresh
        /\ (1460 * 1460) % last.pre.congestion_window # 0

\* C26: receive(d) appends d and returns True exactly when d.dest_port is the
\* socket's port and the buffer holds fewer than 100 datagrams, and otherwise
\* returns False and leaves the buffer; the buffer never holds more than 100;
\* read() removes and returns the payload of the oldest datagram, or returns
\* empty bytes and leaves the empty buffer
C26_BoundedFifo ==
    /\ Len(buffer) <= 100
    /\ udp.op = "receive" =>
          IF udp.arg.dest_port = 8080 /\ Len(udp.pre) < 100
          THEN udp.ret = TRUE /\ buffer = Append(udp.pre, udp.arg)
          ELSE udp.ret = FALSE /\ buffer = udp.pre
    /\ udp.op = "read" =>
          IF udp.pre = <<>>
          THEN udp.ret = <<>> /\ buffer = <<>>
          ELSE /\ udp.ret = udp.pre[1].payload
               /\ buffer = SubSeq(udp.pre, 2, Len(udp.pre))
\* a datagram for the socket's port was refused by the full buffer
C26_Witness ==
    /\ udp.op = "receive"
    /\ udp.arg.dest_port = 8080
    /\ udp.ret = FALSE
    /\ Len(buffer) = 100

\* C27: after receive_lsa(n, seq, neighbors) the database holds a link from n
\* to every neighbor of the LSA; and once A (neighbor B at 1) and B (neighbors
\* A at 1, C at 2) have exchanged such LSAs, the table A computes has a route
\* to C with next hop B and cost 3
C27_Exchanged ==
    /\ lsr["A"].neighbors = <<[k |-> "B", v |-> 1]>>
    /\ lsr["B"].neighbors = <<[k |-> "A", v |-> 1], [k |-> "C", v |-> 2]>>
    /\ \A lsa \in lsas : lsa.neighbors = lsr[lsa.node_id].neighbors
    /\ Has(lsr["A"].link_state_db, "B")
    /\ Has(lsr["B"].link_state_db, "A")
C27_LsaConverges ==
    /\ route.op = "receive_lsa" =>
          \A i \in 1..Len(route.arg.neighbors) :
              /\ Has(lsr[route.r].link_state_db, route.arg.node_id)
              /\ Has(Get(lsr[route.r].link_state_db, route.arg.node_id),
                     route.arg.neighbors[i].k)
    /\ (route.op = "compute_routing_table" /\ route.r = "A" /\ C27_Exchanged) =>
          /\ route.err = None
          /\ Has(route.ret, "C")
          /\ Get(route.ret, "C").next_hop = "B"
          /\ Get(route.ret, "C").cost = 3

\* what receive_ack(ack_segment) at time t makes of a connection with fields F
C23_Retired(F, e, t) ==
    LET sample_rtt == DyAbsDiff(t, e.send_time)
        nrttvar == DyAdd(DyMul(3, 2, F.rttvar),
                         DyMul(1, 2, DyAbsDiff(F.srtt, sample_rtt)))
        nsrtt == DyAdd(DyMul(7, 3, F.srtt), DyMul(1, 3, sample_rtt))
    IN  [F EXCEPT !.unacked_segments = DictPop(@, e.seq),
                  !.srtt = nsrtt, !.rttvar = nrttvar,
                  !.rto = DyAdd(nsrtt, DyMul(4, 0, nrttvar)),
                  !.congestion_window = Grow(@, F.ssthresh)]
RECURSIVE C23_AckLoop(_, _, _, _, _)
C23_AckLoop(F, keys, i, a, t) ==
    IF i > Len(keys) THEN F
    ELSE C23_AckLoop(IF NumLess(keys[i].seq, a) THEN C23_Retired(F, keys[i], t) ELSE F,
                     keys, i + 1, a, t)
C23_Ack(F, ack_segment, t) ==
    [C23_AckLoop(F, F.unacked_segments, 1, ack_segment.ack_num, t)
        EXCEPT !.send_window = ack_segment.window_size]
\* what handle_timeout() at time t makes of a connection with fields F
RECURSIVE C23_TimeoutLoop(_, _, _)
C23_TimeoutLoop(F, i, t) ==
    IF i > Len(F.unacked_segments) THEN F
    ELSE LET e == F.unacked_segments[i]
         IN  C23_TimeoutLoop(
                 IF DyLess(F.rto, DyAbsDiff(t, e.send_time))
                 THEN [F EXCEPT !.unacked_segments = DictSet(@, e.seq, e.segment, t),
                                !.ssthresh = Max(F.congestion_window \div 2, 2 * 1460),
                                !.congestion_window = 1460]
                 ELSE F,
                 i + 1, t)
C23_Timeout(F, t) == C23_TimeoutLoop(F, 1, t)
C23_Claimed(F) ==
    <<F.unacked_segments, F.congestion_window, F.ssthresh, F.seq_num>>

\* C23: when a receive_ack and a handle_timeout call made together on one
\* connection have both ended, the connection's unacked map,
\* congestion_window, ssthresh and seq_num are what the two calls leave when
\* run one after the other, in one order or the other
C23_SerialOutcome ==
    (thr["ack"].pc = "done" /\ thr["timer"].pc = "done") =>
        C23_Claimed(Fields(RaceConn)) \in
            {C23_Claimed(C23_Timeout(C23_Ack(last.pre, last.arg, Secs(last.at)),
                                     Secs(last.at))),
             C23_Claimed(C23_Ack(C23_Timeout(last.pre, Secs(last.at)), last.arg,
                                 Secs(last.at)))}

\* C31: a send_data call that emits a segment leaves no more payload bytes in
\* the unacked map than send_window, the window the last acknowledgment
\* advertised
C31_InFlightWithinSendWindow ==
    \A c \in Conns :
        (Called(c, "send_data") /\ last.ret # <<>>)
            => UnackedBytes(unacked_segments[c]) <= send_window[c]

\* C32: send_data of a non-empty payload, called with fewer payload bytes in
\* the unacked map than congestion_window, emits at least one segment
C32_AdmitsByBytes ==
    \A c \in Conns :
        (/\ Called(c, "send_data")
         /\ last.arg > 0
         /\ UnackedBytes(last.pre.unacked_segments) < last.pre.congestion_window)
            => last.ret # <<>>

\* C33: deserialize of an input of 20 bytes or more returns a segment whose
\* payload is the input without its first 20 bytes, whatever byte 12 holds
C33_PayloadAfterHeader ==
    (codec.pc = "parsed" /\ Len(codec.wire) >= 20)
        => codec.out.payload = SubSeq(codec.wire, 21, Len(codec.wire))

\* C34: in every state, the initial one included, rto = srtt + 4 * rttvar and
\* rto >= srtt
C34_RtoFormula ==
    \A c \in Conns :
        /\ rto[c] = DyAdd(srtt[c], DyMul(4, 0, rttvar[c]))
        /\ ~DyLess(rto[c], srtt[c])

\* C35: the first RTT sample of a connection, taken by a receive_ack that
\* retires one entry of a connection whose estimator is as constructed, sets
\* srtt to the observed round-trip time and rttvar to half of it
C35_FirstSample ==
    \A c \in Conns :
        (/\ Called(c, "receive_ack")
         /\ last.pre.srtt = Dy(1, 1) /\ last.pre.rttvar = Dy(1, 2)
         /\ last.pre.rto = Dy(1, 0)
         /\ Len(last.pre.unacked_segments) = 1
         /\ unacked_segments[c] = <<>>)
            => LET observed_rtt ==
                       DyAbsDiff(Secs(last.at),
                                 last.pre.unacked_segments[1].send_time)
               IN  /\ srtt[c] = observed_rtt
                   /\ rttvar[c] = DyMul(1, 1, observed_rtt)

\* C36: seq_num, ack_num and expected_seq of every connection, and seq_num
\* and ack_num of every segment a call returns, lie in 0..2^32 - 1
C36_InRange(n) == n.hi >= 0 /\ n.hi <= 65535 /\ n.lo >= 0 /\ n.lo <= 65535
C36_SequenceNumbers32Bit ==
    /\ \A c \in Conns :
          /\ C36_InRange(seq_num[c])
          /\ C36_InRange(ack_num[c])
          /\ C36_InRange(expected_seq[c])
    /\ \A i \in 1..Len(last.ret) :
          C36_InRange(last.ret[i].seq_num) /\ C36_InRange(last.ret[i].ack_num)

\* C37: the entries of the unacked map describe byte ranges that end at or
\* below seq_num and do not overlap: for every key k with payload p,
\* k + len(p) <= seq_num, and of two entries one ends where or before the
\* other starts
C37_End(e) == NumAdd(e.seq, PayloadLen(e.segment.payload))
C37_DisjointBelowSeq ==
    \A c \in Conns :
        LET un == unacked_segments[c]
        IN  /\ \A i \in 1..Len(un) : NumLeq(C37_End(un[i]), seq_num[c])
            /\ \A i, j \in 1..Len(un) :
                  i # j => \/ NumLeq(C37_End(un[i]), un[j].seq)
                           \/ NumLeq(C37_End(un[j]), un[i].seq)
\* three entries of two different lengths are outstanding after an
\* acknowledgment retired an earlier one
C37_Witness ==
    \E c \in Conns :
        /\ Called(c, "receive_ack")
        /\ Len(unacked_segments[c]) < Len(last.pre.unacked_segments)
        /\ Len(unacked_segments[c]) >= 2
        /\ \E i, j \in 1..Len(unacked_segments[c]) :
              PayloadLen(unacked_segments[c][i].segment.payload)
                  # PayloadLen(unacked_segments[c][j].segment.payload)

\* C38: in every state ssthresh >= 2 * 1460 and congestion_window >= 1460,
\* and a step that lowers a connection's congestion_window is a
\* handle_timeout call on that connection
C38_WindowFloors ==
    /\ [](\A c \in Conns :
            ssthresh[c] >= 2 * 1460 /\ congestion_window[c] >= 1460)
    /\ [][\A c \in Conns :
            congestion_window'[c] < congestion_window[c]
                => (last'.c = c /\ last'.op = "handle_timeout")]_vars
\* a handle_timeout call lowered a window that had grown past 2 * 1460 to
\* 1460 and set ssthresh to the floor
C38_Witness ==
    \E c \in Conns :
        /\ Called(c, "handle_timeout")
        /\ last.pre.congestion_window > 2 * 1460
        /\ congestion_window[c] = 1460
        /\ ssthresh[c] = 2 * 1460
        /\ last.pre.ssthresh > 2 * 1460

\* C39: a transmit call returns: True after an attempt without collision,
\* its only successful one, or False after 16 collisions and no success; it
\* makes at most 16 attempts, and the station is IDLE when it returns
C39_TransmitTerminates ==
    /\ [](mac.stats.transmissions <= 16)
    /\ [](mac.pc = "returned" =>
            /\ mac.state = "IDLE"
            /\ IF mac.ret
               THEN /\ mac.stats.successful_transmissions = 1
                    /\ mac.stats.transmissions = mac.stats.collisions + 1
               ELSE /\ mac.stats.successful_transmissions = 0
                    /\ mac.stats.collisions = 16
                    /\ mac.stats.transmissions = 16)
    /\ (mac.pc \notin {"idle", "returned"}) ~> (mac.pc = "returned")
\* a call returned False after 16 collisions, having drawn a backoff above 0
C39_Witness ==
    /\ mac.pc = "returned"
    /\ mac.ret = FALSE
    /\ mac.stats.collisions = 16
    /\ mac.stats.backoff_slots > 0
====
